---- MODULE Spec2Model ----
(***************************************************************************)
(* llmp: a configuration-driven reverse proxy in front of LLM upstreams    *)
(* (src/main.go).  The model follows one inbound request from the          *)
(* authMiddleware through proxyToUpstream to the relay of the upstream     *)
(* response.  Strings are TLA+ strings handled with Len, SubSeq and \o,    *)
(* so prefix/suffix trimming and case folding are computed, not assumed.   *)
(***************************************************************************)
EXTENDS Integers, Sequences, FiniteSets, TLC

VARIABLES
    config,        \* the Config value yaml.Unmarshal produced (main.go:43-46)
    env,           \* value of the LITELLM_MASTER_KEY environment variable
    booted,        \* TRUE once loadConfig has returned and the server listens
    modelConfigs,  \* var modelConfigs map[string]ModelConfig (main.go:34)
    authToken,     \* var authToken string (main.go:35)
    req,           \* per connection: the inbound *http.Request (or NoRequest)
    pc,            \* per connection: position of its handler goroutine
    w,             \* per connection: the http.ResponseWriter as the client sees it
    loc,           \* per connection: locals of proxyToUpstream
    upReq,         \* per connection: the sequence of outbound requests issued
    resp,          \* per connection: the upstream *http.Response (or NoResponse)
    rd             \* per connection: bytes of resp.Body not yet consumed, scan count

vars == <<config, env, booted, modelConfigs, authToken, req, pc, w, loc, upReq, resp, rd>>

(***************************************************************************)
(* Bounds of the model.                                                    *)
(***************************************************************************)
\* longest model_list drawn for the configuration
MaxModels == 2
\* most lines in an upstream body drawn for the relay
MaxLines == 2

(***************************************************************************)
(* strings package                                                         *)
(***************************************************************************)
HasPrefix(s, prefix) ==
    /\ Len(s) >= Len(prefix)
    /\ SubSeq(s, 1, Len(prefix)) = prefix

HasSuffix(s, suffix) ==
    /\ Len(s) >= Len(suffix)
    /\ SubSeq(s, Len(s) - Len(suffix) + 1, Len(s)) = suffix

TrimPrefix(s, prefix) ==
    IF HasPrefix(s, prefix) THEN SubSeq(s, Len(prefix) + 1, Len(s)) ELSE s

TrimSuffix(s, suffix) ==
    IF HasSuffix(s, suffix) THEN SubSeq(s, 1, Len(s) - Len(suffix)) ELSE s

Uppers == "ABCDEFGHIJKLMNOPQRSTUVWXYZ"
Lowers == "abcdefghijklmnopqrstuvwxyz"

LowerChar(c) ==
    IF \E i \in 1..Len(Uppers) : SubSeq(Uppers, i, i) = c
    THEN LET i == CHOOSE j \in 1..Len(Uppers) : SubSeq(Uppers, j, j) = c
         IN  SubSeq(Lowers, i, i)
    ELSE c

UpperChar(c) ==
    IF \E i \in 1..Len(Lowers) : SubSeq(Lowers, i, i) = c
    THEN LET i == CHOOSE j \in 1..Len(Lowers) : SubSeq(Lowers, j, j) = c
         IN  SubSeq(Uppers, i, i)
    ELSE c

RECURSIVE ToLower(_)
ToLower(s) ==
    IF s = "" THEN ""
    ELSE LowerChar(SubSeq(s, 1, 1)) \o ToLower(SubSeq(s, 2, Len(s)))

(***************************************************************************)
(* net/http and net/textproto: header maps.  A Header is a function from   *)
(* canonical keys to the sequence of the key's values; a key outside the   *)
(* domain is an absent header.                                             *)
(***************************************************************************)
RECURSIVE CanonicalFrom(_, _)
CanonicalFrom(s, upper) ==
    IF s = "" THEN ""
    ELSE LET c == SubSeq(s, 1, 1)
         IN  (IF upper THEN UpperChar(c) ELSE LowerChar(c))
                 \o CanonicalFrom(SubSeq(s, 2, Len(s)), c = "-")

CanonicalMIMEHeaderKey(s) == CanonicalFrom(s, TRUE)

\* func (h Header) Get(key string) string: first value, "" when there is none
HeaderGet(h, key) ==
    LET k == CanonicalMIMEHeaderKey(key)
    IN  IF k \in DOMAIN h /\ Len(h[k]) > 0 THEN h[k][1] ELSE ""

\* func (h Header) Add(key, value string)
HeaderAdd(h, key, value) ==
    LET k == CanonicalMIMEHeaderKey(key)
    IN  [x \in DOMAIN h \cup {k} |->
            IF x = k
            THEN (IF k \in DOMAIN h THEN h[k] ELSE <<>>) \o <<value>>
            ELSE h[x]]

\* func (h Header) Set(key, value string)
HeaderSet(h, key, value) ==
    LET k == CanonicalMIMEHeaderKey(key)
    IN  [x \in DOMAIN h \cup {k} |-> IF x = k THEN <<value>> ELSE h[x]]

NoHeader == [x \in {} |-> <<>>]

(***************************************************************************)
(* Configuration (main.go:18-32) and the inputs drawn for it.              *)
(***************************************************************************)
LitellmParams(model, apiBase, apiKey) ==
    [Model |-> model, APIBase |-> apiBase, APIKey |-> apiKey]

ModelConfig(modelName, params) ==
    [ModelName |-> modelName, LitellmParams |-> params]

Config(modelList, token) ==
    [ModelList |-> modelList, AuthToken |-> token]

\* entries a model_list is drawn from: a duplicated logical name with two
\* different routes, a name differing only in case, the empty name, and an
\* api_base that net/url cannot parse
Entries ==
    { ModelConfig("claude-x", LitellmParams("anthropic/claude-3-opus", "http://a/", "sk-up")),
      ModelConfig("claude-x", LitellmParams("openai/gpt-4o", "http://o", "")),
      ModelConfig("Claude-X", LitellmParams("anthropic/anthropic/c", "http://a", "")),
      ModelConfig("", LitellmParams("anthropic/e", "http://a", "sk-up")),
      ModelConfig("bad", LitellmParams("anthropic/b", ":", "")) }

SeqsUpTo(S, n) == UNION { [1..k -> S] : k \in 0..n }

ModelLists == SeqsUpTo(Entries, MaxModels)

\* the model_list of the relay and authentication specifications
FixedModelList ==
    << ModelConfig("claude-x", LitellmParams("openai/gpt-4o", "http://o", "")),
       ModelConfig("claude-x", LitellmParams("anthropic/claude-3-opus", "http://a/", "sk-up")) >>

Secret == "s3"

(***************************************************************************)
(* loadConfig (main.go:37-61)                                              *)
(***************************************************************************)
\* modelConfigs[modelConfig.ModelName] = modelConfig
MapPut(m, k, v) == [x \in DOMAIN m \cup {k} |-> IF x = k THEN v ELSE m[x]]

EmptyMap == [x \in {} |-> ModelConfig("", LitellmParams("", "", ""))]

\* for _, modelConfig := range config.ModelList { ... }
\* loadConfig keeping the first entry of a name instead of the last
RECURSIVE BuildModelConfigs_FirstWins(_, _)
BuildModelConfigs_FirstWins(m, list) ==
    IF list = <<>> THEN m
    ELSE BuildModelConfigs_FirstWins(
             IF Head(list).ModelName \in DOMAIN m THEN m
             ELSE MapPut(m, Head(list).ModelName, Head(list)),
             Tail(list))

RECURSIVE BuildModelConfigs(_, _)
BuildModelConfigs(m, list) ==
    IF list = <<>> THEN m
    ELSE BuildModelConfigs(MapPut(m, Head(list).ModelName, Head(list)), Tail(list))

loadConfig ==
    /\ ~booted
    /\ modelConfigs' = BuildModelConfigs(EmptyMap, config.ModelList)
    /\ authToken' = IF config.AuthToken = "" THEN env ELSE config.AuthToken
    /\ booted' = TRUE
    /\ UNCHANGED <<config, env, req, pc, w, loc, upReq, resp, rd>>

isAnthropicModel(modelName) == HasPrefix(modelName, "anthropic/")

(***************************************************************************)
(* http.ResponseWriter as the handler drives it and the client observes    *)
(* it: the header map, the status line once written, the header snapshot   *)
(* sent with it, and the sequence of Write and Flush calls that reached    *)
(* the client.                                                             *)
(***************************************************************************)
NewWriter ==
    [header |-> NoHeader, wroteHeader |-> FALSE, status |-> 0,
     sent |-> NoHeader, events |-> <<>>, flusher |-> "unknown"]

WriteEvent(data) == [op |-> "write", data |-> data]
FlushEvent == [op |-> "flush", data |-> ""]

\* w.WriteHeader(code): only the first call takes effect
WriteHeader(rw, code) ==
    IF rw.wroteHeader THEN rw
    ELSE [rw EXCEPT !.wroteHeader = TRUE, !.status = code, !.sent = rw.header]

\* w.Write(data) that the client accepts; an implicit WriteHeader(200) first
Write(rw, data) ==
    LET h == WriteHeader(rw, 200)
    IN  [h EXCEPT !.events = Append(h.events, WriteEvent(data))]

\* a Flush that leaves the line in the server's buffer
Flush_Buffered(rw) == rw

\* flusher.Flush()
Flush(rw) ==
    LET h == WriteHeader(rw, 200)
    IN  [h EXCEPT !.events = Append(h.events, FlushEvent)]

\* http.Error(w, error, code)
HttpError(rw, error, code) ==
    LET h1 == [rw EXCEPT !.header =
                  HeaderSet(HeaderSet(rw.header, "Content-Type", "text/plain; charset=utf-8"),
                            "X-Content-Type-Options", "nosniff")]
    IN  Write(WriteHeader(h1, code), error \o "\n")

\* the bytes the client has received, in order
RECURSIVE BodyOf(_)
BodyOf(events) ==
    IF events = <<>> THEN ""
    ELSE (IF Head(events).op = "write" THEN Head(events).data ELSE "")
             \o BodyOf(Tail(events))

StatusUnauthorized == 401
StatusBadRequest == 400
StatusInternalServerError == 500
StatusBadGateway == 502
StatusOK == 200

(***************************************************************************)
(* Connections.  Each inbound request runs in its own goroutine; ReqIds    *)
(* names the connections of the model.                                     *)
(***************************************************************************)
ReqIds == {1, 2}

Paths == {"/v1/chat/completions", "/chat/completions", "/v1/messages"}

\* JSON values of the body fields the handler looks at
JAbsent == [t |-> "absent", v |-> ""]
JNull == [t |-> "null", v |-> ""]
JTrue == [t |-> "true", v |-> ""]
JFalse == [t |-> "false", v |-> ""]
JStr(s) == [t |-> "string", v |-> s]
JNum(raw) == [t |-> "number", v |-> raw]

Body(model, stream, maxTokens) ==
    [model |-> model, stream |-> stream, max_tokens |-> maxTokens]

Request(header, path, body, bodyErr) ==
    [Header |-> header, Path |-> path, Body |-> body, bodyErr |-> bodyErr]

NoRequest == Request(NoHeader, "", Body(JAbsent, JAbsent, JAbsent), FALSE)

NoUpstreamRequest ==
    [Method |-> "", URL |-> "", Header |-> NoHeader,
     Body |-> Body(JAbsent, JAbsent, JAbsent), Timeout |-> 0]

NewLocals ==
    [next |-> 0, lookups |-> 0, isStream |-> FALSE, out |-> NoUpstreamRequest,
     scans |-> 0, lines |-> <<>>, scanErr |-> FALSE, writeErr |-> FALSE,
     copyErr |-> FALSE]

NoResponse == [StatusCode |-> 0, Header |-> NoHeader, Body |-> "", readErr |-> FALSE]

(***************************************************************************)
(* authMiddleware (main.go:67-92).  authOutcome is the decision of lines   *)
(* 69-90: "next" (the wrapped handler runs), "required" or "invalid".      *)
(***************************************************************************)
\* authOutcome without the x-api-key fallback of lines 76-79
authOutcome_NoFallback(header, secret) ==
    LET authHeader == HeaderGet(header, "Authorization")
        token == TrimPrefix(authHeader, "Bearer ")
    IN  IF secret = "" THEN "next"
        ELSE IF authHeader = "" THEN "required"
        ELSE IF token # secret THEN "invalid"
        ELSE "next"

\* authOutcome without the disabled-authentication branch of lines 69-72
authOutcome_NoBypass(header, secret) ==
    LET authHeader0 == HeaderGet(header, "Authorization")
        authHeader == IF authHeader0 = "" THEN HeaderGet(header, "x-api-key")
                      ELSE authHeader0
        token == IF authHeader0 = "" THEN authHeader
                 ELSE TrimPrefix(authHeader0, "Bearer ")
    IN  IF authHeader = "" THEN "required"
        ELSE IF token # secret THEN "invalid"
        ELSE "next"

\* authOutcome that also accepts a matching x-api-key beside an Authorization header
authOutcome_EitherHeader(header, secret) ==
    LET authHeader == HeaderGet(header, "Authorization")
        key == HeaderGet(header, "x-api-key")
    IN  IF secret = "" THEN "next"
        ELSE IF authHeader = "" /\ key = "" THEN "required"
        ELSE IF TrimPrefix(authHeader, "Bearer ") = secret \/ key = secret THEN "next"
        ELSE "invalid"

authOutcome(header, secret) ==
    LET authHeader0 == HeaderGet(header, "Authorization")
        token0 == TrimPrefix(authHeader0, "Bearer ")
        authHeader == IF authHeader0 = "" THEN HeaderGet(header, "x-api-key")
                      ELSE authHeader0
        token == IF authHeader0 = "" THEN authHeader ELSE token0
    IN  IF secret = "" THEN "next"
        ELSE IF authHeader = "" THEN "required"
        ELSE IF token # secret THEN "invalid"
        ELSE "next"

\* authMiddleware without the `return` after http.Error: a rejected request
\* is answered 401 and handed to the wrapped handler all the same
authMiddleware_NoReturn(r) ==
    /\ booted
    /\ pc[r] = "auth"
    /\ LET outcome == authOutcome(req[r].Header, authToken)
           reject(msg) == w' = [w EXCEPT ![r] = HttpError(@, msg, StatusUnauthorized)]
       IN  /\ pc' = [pc EXCEPT ![r] = "proxy"]
           /\ loc' = [loc EXCEPT ![r].next = @ + 1]
           /\ CASE outcome = "next" -> UNCHANGED w
                 [] outcome = "required" ->
                        reject("Authorization or x-api-key header required")
                 [] outcome = "invalid" -> reject("Invalid token")
    /\ UNCHANGED <<config, env, booted, modelConfigs, authToken, req, upReq, resp, rd>>

\* The wrapped handler is entered by moving the connection to "proxy";
\* loc.next counts its invocations.
authMiddleware(r) ==
    /\ booted
    /\ pc[r] = "auth"
    /\ LET outcome == authOutcome(req[r].Header, authToken)
           reject(msg) == /\ pc' = [pc EXCEPT ![r] = "done"]
                          /\ w' = [w EXCEPT ![r] = HttpError(@, msg, StatusUnauthorized)]
                          /\ UNCHANGED loc
       IN  CASE outcome = "next" ->
                    /\ pc' = [pc EXCEPT ![r] = "proxy"]
                    /\ loc' = [loc EXCEPT ![r].next = @ + 1]
                    /\ UNCHANGED w
             [] outcome = "required" ->
                    reject("Authorization or x-api-key header required")
             [] outcome = "invalid" -> reject("Invalid token")
    /\ UNCHANGED <<config, env, booted, modelConfigs, authToken, req, upReq, resp, rd>>

(***************************************************************************)
(* gjson / sjson on the request body (main.go:101, 118, 135).              *)
(***************************************************************************)
\* gjson.Result.String(): the string itself, a number's raw text, "true",
\* "false", and "" for null or a missing field
GjsonString(val) ==
    CASE val.t = "string" -> val.v
      [] val.t = "number" -> val.v
      [] val.t = "true" -> "true"
      [] val.t = "false" -> "false"
      [] OTHER -> ""

\* strconv.ParseBool: the spellings that parse as true
ParseBoolTrue(str) == str \in {"1", "t", "T", "TRUE", "true", "True"}

\* a Bool() that is true for the literal true alone
GjsonBool_LiteralOnly(val) == val.t = "true"

\* gjson.Result.Bool(): true for the literal true, for a string that
\* ParseBool accepts as true once lower-cased, and for a non-zero number
GjsonBool(val) ==
    CASE val.t = "true" -> TRUE
      [] val.t = "string" -> ParseBoolTrue(ToLower(val.v))
      [] val.t = "number" -> val.v \notin {"0", "0.0", "-0"}
      [] OTHER -> FALSE

\* sjson.SetBytes(body, "model", value) with a string value: a field-level
\* patch that leaves every other field as it was
SjsonSetModel(body, value) == [body EXCEPT !.model = JStr(value)]

\* the anonymous function stripping one path segment too many
stripProvider_AllPrefixes(m) ==
    TrimPrefix(TrimPrefix(m, "anthropic/"), "anthropic/")

\* the anonymous function of main.go:118-124
stripProvider(m) ==
    IF isAnthropicModel(m) THEN TrimPrefix(m, "anthropic/")
    ELSE TrimPrefix(m, "openai/")

\* url.Parse, as http.NewRequest uses it, rejects a URL that begins with a
\* colon ("missing protocol scheme")
UrlParses(url) == ~HasPrefix(url, ":")

NonStreamTimeout == 30

\* the outbound request with the bearer header set unconditionally
NewUpstreamRequest_AlwaysBearer(url, body, apiKey, isStream) ==
    LET h0 == HeaderSet(HeaderSet(NoHeader, "Content-Type", "application/json"),
                        "User-Agent", "llmp-proxy/1.0")
        h1 == HeaderSet(h0, "Authorization", "Bearer " \o apiKey)
    IN  [Method |-> "POST", URL |-> url, Header |-> h1, Body |-> body,
         Timeout |-> IF isStream THEN 0 ELSE NonStreamTimeout]

\* main.go:146-157: the outbound request
NewUpstreamRequest(url, body, apiKey, isStream) ==
    LET h0 == HeaderSet(HeaderSet(NoHeader, "Content-Type", "application/json"),
                        "User-Agent", "llmp-proxy/1.0")
        h1 == IF apiKey # "" THEN HeaderSet(h0, "Authorization", "Bearer " \o apiKey)
              ELSE h0
    IN  [Method |-> "POST", URL |-> url, Header |-> h1, Body |-> body,
         Timeout |-> IF isStream THEN 0 ELSE NonStreamTimeout]

\* modelConfigs[modelName]
Lookup(m, name) ==
    IF name \in DOMAIN m THEN [exists |-> TRUE, config |-> m[name]]
    ELSE [exists |-> FALSE, config |-> ModelConfig("", LitellmParams("", "", ""))]

(***************************************************************************)
(* proxyToUpstream, main.go:94-157: from reading the body to the built     *)
(* outbound request.  prepare computes the outcome: an error reply         *)
(* (status, message) or the request to send.                               *)
(***************************************************************************)
Reply(status, msg, lookups) ==
    [kind |-> "reply", status |-> status, msg |-> msg, lookups |-> lookups,
     isStream |-> FALSE,
     out |-> NoUpstreamRequest]

Send(out, isStream) ==
    [kind |-> "send", status |-> 0, msg |-> "", lookups |-> 1,
     isStream |-> isStream, out |-> out]

\* prepare without the provider-family check of lines 113-116
prepare_NoFamilyCheck(request, table) ==
    LET modelName == GjsonString(request.Body.model)
        found == Lookup(table, modelName)
        cfg == found.config
        modifiedBody == SjsonSetModel(request.Body, stripProvider(cfg.LitellmParams.Model))
        upstreamURL == TrimSuffix(cfg.LitellmParams.APIBase, "/") \o request.Path
        isStream == GjsonBool(request.Body.stream)
    IN  IF request.bodyErr
        THEN Reply(StatusBadRequest, "Error reading request body", 0)
        ELSE IF modelName = ""
        THEN Reply(StatusBadRequest, "Model field is required", 0)
        ELSE IF ~found.exists
        THEN Reply(StatusBadRequest, "Model not found", 1)
        ELSE IF ~UrlParses(upstreamURL)
        THEN Reply(StatusInternalServerError, "Error creating request", 1)
        ELSE Send(NewUpstreamRequest(upstreamURL, modifiedBody,
                                     cfg.LitellmParams.APIKey, isStream), isStream)

\* prepare consulting the routing table before the empty-model check
prepare_LookupFirst(request, table) ==
    LET modelName == GjsonString(request.Body.model)
        found == Lookup(table, modelName)
        cfg == found.config
        modifiedBody == SjsonSetModel(request.Body, stripProvider(cfg.LitellmParams.Model))
        upstreamURL == TrimSuffix(cfg.LitellmParams.APIBase, "/") \o request.Path
        isStream == GjsonBool(request.Body.stream)
    IN  IF request.bodyErr
        THEN Reply(StatusBadRequest, "Error reading request body", 0)
        ELSE IF ~found.exists
        THEN (IF modelName = ""
              THEN Reply(StatusBadRequest, "Model field is required", 1)
              ELSE Reply(StatusBadRequest, "Model not found", 1))
        ELSE IF ~isAnthropicModel(cfg.LitellmParams.Model)
        THEN Reply(StatusBadRequest, "OpenAI models should use /chat/completions endpoint", 1)
        ELSE IF ~UrlParses(upstreamURL)
        THEN Reply(StatusInternalServerError, "Error creating request", 1)
        ELSE Send(NewUpstreamRequest(upstreamURL, modifiedBody,
                                     cfg.LitellmParams.APIKey, isStream), isStream)

\* prepare passing the client's x-api-key header on to the upstream
prepare_ForwardKey(request, table) ==
    LET modelName == GjsonString(request.Body.model)
        found == Lookup(table, modelName)
        cfg == found.config
        modifiedBody == SjsonSetModel(request.Body, stripProvider(cfg.LitellmParams.Model))
        upstreamURL == TrimSuffix(cfg.LitellmParams.APIBase, "/") \o request.Path
        isStream == GjsonBool(request.Body.stream)
        key == HeaderGet(request.Header, "x-api-key")
        out == NewUpstreamRequest(upstreamURL, modifiedBody,
                                  cfg.LitellmParams.APIKey, isStream)
    IN  IF request.bodyErr
        THEN Reply(StatusBadRequest, "Error reading request body", 0)
        ELSE IF modelName = ""
        THEN Reply(StatusBadRequest, "Model field is required", 0)
        ELSE IF ~found.exists
        THEN Reply(StatusBadRequest, "Model not found", 1)
        ELSE IF ~isAnthropicModel(cfg.LitellmParams.Model)
        THEN Reply(StatusBadRequest, "OpenAI models should use /chat/completions endpoint", 1)
        ELSE IF ~UrlParses(upstreamURL)
        THEN Reply(StatusInternalServerError, "Error creating request", 1)
        ELSE Send(IF key = "" THEN out
                  ELSE [out EXCEPT !.Header = HeaderSet(@, "x-api-key", key)], isStream)

prepare(request, table) ==
    LET modelName == GjsonString(request.Body.model)
        found == Lookup(table, modelName)
        cfg == found.config
        modifiedBody == SjsonSetModel(request.Body, stripProvider(cfg.LitellmParams.Model))
        upstreamURL == TrimSuffix(cfg.LitellmParams.APIBase, "/") \o request.Path
        isStream == GjsonBool(request.Body.stream)
    IN  IF request.bodyErr
        THEN Reply(StatusBadRequest, "Error reading request body", 0)
        ELSE IF modelName = ""
        THEN Reply(StatusBadRequest, "Model field is required", 0)
        ELSE IF ~found.exists
        THEN Reply(StatusBadRequest, "Model not found", 1)
        ELSE IF ~isAnthropicModel(cfg.LitellmParams.Model)
        THEN Reply(StatusBadRequest, "OpenAI models should use /chat/completions endpoint", 1)
        ELSE IF ~UrlParses(upstreamURL)
        THEN Reply(StatusInternalServerError, "Error creating request", 1)
        ELSE Send(NewUpstreamRequest(upstreamURL, modifiedBody,
                                     cfg.LitellmParams.APIKey, isStream), isStream)

\* the handler storing the stripped model name back into the shared routing
\* table entry it looked up
proxyToUpstream_WritesTable(r) ==
    /\ pc[r] = "proxy"
    /\ LET p == prepare(req[r], modelConfigs)
           modelName == GjsonString(req[r].Body.model)
       IN  IF p.kind = "reply"
           THEN /\ w' = [w EXCEPT ![r] = HttpError(@, p.msg, p.status)]
                /\ pc' = [pc EXCEPT ![r] = "done"]
                /\ loc' = [loc EXCEPT ![r].lookups = @ + p.lookups]
                /\ UNCHANGED modelConfigs
           ELSE /\ pc' = [pc EXCEPT ![r] = "do"]
                /\ loc' = [loc EXCEPT ![r].lookups = @ + p.lookups,
                                      ![r].isStream = p.isStream,
                                      ![r].out = p.out]
                /\ modelConfigs' =
                       [modelConfigs EXCEPT ![modelName].LitellmParams.Model =
                                               stripProvider(@)]
                /\ UNCHANGED w
    /\ UNCHANGED <<config, env, booted, authToken, req, upReq, resp, rd>>

proxyToUpstream(r) ==
    /\ pc[r] = "proxy"
    /\ LET p == prepare(req[r], modelConfigs)
       IN  IF p.kind = "reply"
           THEN /\ w' = [w EXCEPT ![r] = HttpError(@, p.msg, p.status)]
                /\ pc' = [pc EXCEPT ![r] = "done"]
                /\ loc' = [loc EXCEPT ![r].lookups = @ + p.lookups]
           ELSE /\ pc' = [pc EXCEPT ![r] = "do"]
                /\ loc' = [loc EXCEPT ![r].lookups = @ + p.lookups,
                                      ![r].isStream = p.isStream,
                                      ![r].out = p.out]
                /\ UNCHANGED w
    /\ UNCHANGED <<config, env, booted, modelConfigs, authToken, req, upReq, resp, rd>>

(***************************************************************************)
(* Upstream responses.  Body is the bytes the upstream delivers before the *)
(* read ends; readErr tells whether it ends in an error (a reset, the      *)
(* 30 s client timeout) rather than in EOF.  BlockChar stands for a run of *)
(* BlockSize payload bytes, so that a line can reach the scanner's limit.  *)
(***************************************************************************)
BlockChar == "#"
BlockSize == 2^20
MaxTokenSize == 10 * 2^20

RECURSIVE ByteLen(_)
ByteLen(s) ==
    IF s = "" THEN 0
    ELSE (IF SubSeq(s, 1, 1) = BlockChar THEN BlockSize ELSE 1)
             + ByteLen(SubSeq(s, 2, Len(s)))

LongLine == "##########"

LineSet == {"a", "b\r", ""}

RECURSIVE JoinLines(_, _)
JoinLines(ls, terminated) ==
    IF ls = <<>> THEN ""
    ELSE IF Len(ls) = 1 THEN (IF terminated THEN ls[1] \o "\n" ELSE ls[1])
    ELSE ls[1] \o "\n" \o JoinLines(Tail(ls), terminated)

UpBodies ==
    { JoinLines(ls, t) : ls \in SeqsUpTo(LineSet, MaxLines), t \in BOOLEAN }
        \cup { "{\"id\":\"abc\"}", "a\n" \o LongLine \o "\nb\n", "#########\n" }

UpHeaders ==
    { NoHeader,
      ("Content-Length" :> <<"6">>) @@ ("Content-Type" :> <<"application/json">>),
      ("Transfer-Encoding" :> <<"chunked">>) @@ ("X-Request-Id" :> <<"r1", "r2">>),
      ("Content-Length" :> <<"6">>) @@ ("Transfer-Encoding" :> <<"chunked">>)
          @@ ("Content-Type" :> <<"text/event-stream">>) }

UpStatuses == {200, 429, 500}

Response(status, header, body, readErr) ==
    [StatusCode |-> status, Header |-> header, Body |-> body, readErr |-> readErr]

Responses ==
    { Response(st, h, b, e) : st \in UpStatuses, h \in UpHeaders, b \in UpBodies, e \in BOOLEAN }

FewResponses ==
    { Response(200, ("Content-Length" :> <<"6">>) @@ ("Content-Type" :> <<"text/event-stream">>),
               "a\nb\r\n", FALSE),
      Response(500, NoHeader, "{\"id\":\"abc\"}", TRUE) }

(***************************************************************************)
(* client.Do(req), main.go:159-163.  The request is recorded as issued;    *)
(* either no response is obtained (502) or the upstream answers.           *)
(***************************************************************************)
\* client.Do wrapped in a retry: after a failed call the request is sent once
\* more before the failure is reported
clientDo_Retry(r, responses) ==
    /\ pc[r] = "do"
    /\ \/ /\ upReq' = [upReq EXCEPT ![r] = Append(Append(@, loc[r].out), loc[r].out)]
          /\ w' = [w EXCEPT ![r] = HttpError(@, "Error forwarding request", StatusBadGateway)]
          /\ pc' = [pc EXCEPT ![r] = "done"]
          /\ UNCHANGED <<resp, rd>>
       \/ \E rs \in responses :
              /\ upReq' = [upReq EXCEPT ![r] = Append(@, loc[r].out)]
              /\ resp' = [resp EXCEPT ![r] = rs]
              /\ rd' = [rd EXCEPT ![r] = rs.Body]
              /\ pc' = [pc EXCEPT ![r] = "relay"]
              /\ UNCHANGED w
    /\ UNCHANGED <<config, env, booted, modelConfigs, authToken, req, loc>>

clientDo(r, responses) ==
    /\ pc[r] = "do"
    /\ upReq' = [upReq EXCEPT ![r] = Append(@, loc[r].out)]
    /\ \/ /\ w' = [w EXCEPT ![r] = HttpError(@, "Error forwarding request", StatusBadGateway)]
          /\ pc' = [pc EXCEPT ![r] = "done"]
          /\ UNCHANGED <<resp, rd>>
       \/ \E rs \in responses :
              /\ resp' = [resp EXCEPT ![r] = rs]
              /\ rd' = [rd EXCEPT ![r] = rs.Body]
              /\ pc' = [pc EXCEPT ![r] = "relay"]
              /\ UNCHANGED w
    /\ UNCHANGED <<config, env, booted, modelConfigs, authToken, req, loc>>

(***************************************************************************)
(* Header relay, status line and the Flusher check, main.go:167-192.       *)
(***************************************************************************)
\* the header filter comparing the key as it is, without strings.ToLower
skipHeader_CaseSensitive(key, isStream) ==
    \/ isStream /\ key = "content-length"
    \/ isStream /\ key = "transfer-encoding"

\* the two `continue` conditions of main.go:169-175
skipHeader(key, isStream) ==
    \/ isStream /\ ToLower(key) = "content-length"
    \/ isStream /\ ToLower(key) = "transfer-encoding"

\* for _, value := range values { w.Header().Add(key, value) }
RECURSIVE addValues(_, _, _)
addValues(h, key, values) ==
    IF values = <<>> THEN h
    ELSE addValues(HeaderAdd(h, key, Head(values)), key, Tail(values))

\* for key, values := range resp.Header { ... }, over the keys not yet visited
RECURSIVE copyHeaders(_, _, _, _)
copyHeaders(h, src, keys, isStream) ==
    IF keys = {} THEN h
    ELSE LET key == CHOOSE k \in keys : TRUE
             h1 == IF skipHeader(key, isStream) THEN h ELSE addValues(h, key, src[key])
         IN  copyHeaders(h1, src, keys \ {key}, isStream)

\* a relay that interprets the upstream status: a 5xx is reported as 502
relay_ErrorAsBadGateway(r) ==
    /\ pc[r] = "relay"
    /\ LET w1 == [w[r] EXCEPT !.header =
                     copyHeaders(@, resp[r].Header, DOMAIN resp[r].Header, loc[r].isStream)]
           w2 == WriteHeader(w1, IF resp[r].StatusCode >= 500 THEN StatusBadGateway
                                 ELSE resp[r].StatusCode)
       IN  IF loc[r].isStream
           THEN \E ok \in BOOLEAN :
                    IF ok
                    THEN /\ w' = [w EXCEPT ![r] = [w2 EXCEPT !.flusher = "yes"]]
                         /\ pc' = [pc EXCEPT ![r] = "scan"]
                    ELSE /\ w' = [w EXCEPT ![r] =
                                     HttpError([w2 EXCEPT !.flusher = "no"],
                                               "Streaming not supported",
                                               StatusInternalServerError)]
                         /\ pc' = [pc EXCEPT ![r] = "done"]
           ELSE /\ w' = [w EXCEPT ![r] = w2]
                /\ pc' = [pc EXCEPT ![r] = "copy"]
    /\ UNCHANGED <<config, env, booted, modelConfigs, authToken, req, loc, upReq, resp, rd>>

relay(r) ==
    /\ pc[r] = "relay"
    /\ LET w1 == [w[r] EXCEPT !.header =
                     copyHeaders(@, resp[r].Header, DOMAIN resp[r].Header, loc[r].isStream)]
           w2 == WriteHeader(w1, resp[r].StatusCode)
       IN  IF loc[r].isStream
           THEN \E ok \in BOOLEAN :
                    IF ok
                    THEN /\ w' = [w EXCEPT ![r] = [w2 EXCEPT !.flusher = "yes"]]
                         /\ pc' = [pc EXCEPT ![r] = "scan"]
                    ELSE /\ w' = [w EXCEPT ![r] =
                                     HttpError([w2 EXCEPT !.flusher = "no"],
                                               "Streaming not supported",
                                               StatusInternalServerError)]
                         /\ pc' = [pc EXCEPT ![r] = "done"]
           ELSE /\ w' = [w EXCEPT ![r] = w2]
                /\ pc' = [pc EXCEPT ![r] = "copy"]
    /\ UNCHANGED <<config, env, booted, modelConfigs, authToken, req, loc, upReq, resp, rd>>

(***************************************************************************)
(* bufio.Scanner with bufio.ScanLines and a 10 MiB token limit,            *)
(* main.go:195-197.                                                        *)
(***************************************************************************)
\* index of the first "\n" of s, 0 when there is none
RECURSIVE IndexNewline(_, _)
IndexNewline(s, i) ==
    IF i > Len(s) THEN 0
    ELSE IF SubSeq(s, i, i) = "\n" THEN i
    ELSE IndexNewline(s, i + 1)

\* bufio.dropCR
dropCR(data) ==
    IF Len(data) > 0 /\ SubSeq(data, Len(data), Len(data)) = "\r"
    THEN SubSeq(data, 1, Len(data) - 1)
    ELSE data

\* one scanner.Scan() on the unread bytes `data`, the read ending after them
Scan(data) ==
    LET i == IndexNewline(data, 1)
        raw == IF i > 0 THEN SubSeq(data, 1, i - 1) ELSE data
        rest == IF i > 0 THEN SubSeq(data, i + 1, Len(data)) ELSE ""
    IN  IF data = "" THEN [kind |-> "end", token |-> "", rest |-> ""]
        ELSE IF ByteLen(raw) >= MaxTokenSize
        THEN [kind |-> "toolong", token |-> "", rest |-> data]
        ELSE [kind |-> "token", token |-> dropCR(raw), rest |-> rest]

(***************************************************************************)
(* One iteration of the streaming loop, main.go:199-216.                   *)
(***************************************************************************)
\* the loop without the `return` of main.go:207: after a failed write it goes on
\* to the next line
scanLoop_NoReturn(r) ==
    /\ pc[r] = "scan"
    /\ LET sc == Scan(rd[r])
       IN  CASE sc.kind = "token" ->
                    /\ rd' = [rd EXCEPT ![r] = sc.rest]
                    /\ \/ /\ w' = [w EXCEPT ![r] = Flush(Write(@, sc.token \o "\n"))]
                          /\ loc' = [loc EXCEPT ![r].scans = @ + 1,
                                                ![r].lines = Append(@, sc.token)]
                          /\ UNCHANGED pc
                       \/ /\ loc' = [loc EXCEPT ![r].scans = @ + 1,
                                                ![r].lines = Append(@, sc.token),
                                                ![r].writeErr = TRUE]
                          /\ UNCHANGED <<pc, w>>
             [] sc.kind = "toolong" ->
                    /\ loc' = [loc EXCEPT ![r].scans = @ + 1, ![r].scanErr = TRUE]
                    /\ pc' = [pc EXCEPT ![r] = "done"]
                    /\ UNCHANGED <<w, rd>>
             [] sc.kind = "end" ->
                    /\ loc' = [loc EXCEPT ![r].scans = @ + 1, ![r].scanErr = resp[r].readErr]
                    /\ pc' = [pc EXCEPT ![r] = "done"]
                    /\ UNCHANGED <<w, rd>>
    /\ UNCHANGED <<config, env, booted, modelConfigs, authToken, req, upReq, resp>>

\* the loop reporting a failed read of the upstream body to the client with
\* http.Error
scanLoop_ReportReadError(r) ==
    /\ pc[r] = "scan"
    /\ LET sc == Scan(rd[r])
       IN  CASE sc.kind = "token" ->
                    /\ rd' = [rd EXCEPT ![r] = sc.rest]
                    /\ \/ /\ w' = [w EXCEPT ![r] = Flush(Write(@, sc.token \o "\n"))]
                          /\ loc' = [loc EXCEPT ![r].scans = @ + 1,
                                                ![r].lines = Append(@, sc.token)]
                          /\ UNCHANGED pc
                       \/ /\ loc' = [loc EXCEPT ![r].scans = @ + 1,
                                                ![r].lines = Append(@, sc.token),
                                                ![r].writeErr = TRUE]
                          /\ pc' = [pc EXCEPT ![r] = "done"]
                          /\ UNCHANGED w
             [] sc.kind = "toolong" ->
                    /\ loc' = [loc EXCEPT ![r].scans = @ + 1, ![r].scanErr = TRUE]
                    /\ pc' = [pc EXCEPT ![r] = "done"]
                    /\ UNCHANGED <<w, rd>>
             [] sc.kind = "end" ->
                    /\ loc' = [loc EXCEPT ![r].scans = @ + 1, ![r].scanErr = resp[r].readErr]
                    /\ pc' = [pc EXCEPT ![r] = "done"]
                    /\ w' = [w EXCEPT ![r] =
                                IF resp[r].readErr
                                THEN HttpError(@, "Error reading response", StatusBadGateway)
                                ELSE @]
                    /\ UNCHANGED rd
    /\ UNCHANGED <<config, env, booted, modelConfigs, authToken, req, upReq, resp>>

scanLoop(r) ==
    /\ pc[r] = "scan"
    /\ LET sc == Scan(rd[r])
       IN  CASE sc.kind = "token" ->
                    /\ rd' = [rd EXCEPT ![r] = sc.rest]
                    /\ \/ /\ w' = [w EXCEPT ![r] = Flush(Write(@, sc.token \o "\n"))]
                          /\ loc' = [loc EXCEPT ![r].scans = @ + 1,
                                                ![r].lines = Append(@, sc.token)]
                          /\ UNCHANGED pc
                       \/ /\ loc' = [loc EXCEPT ![r].scans = @ + 1,
                                                ![r].lines = Append(@, sc.token),
                                                ![r].writeErr = TRUE]
                          /\ pc' = [pc EXCEPT ![r] = "done"]
                          /\ UNCHANGED w
             [] sc.kind = "toolong" ->
                    /\ loc' = [loc EXCEPT ![r].scans = @ + 1, ![r].scanErr = TRUE]
                    /\ pc' = [pc EXCEPT ![r] = "done"]
                    /\ UNCHANGED <<w, rd>>
             [] sc.kind = "end" ->
                    /\ loc' = [loc EXCEPT ![r].scans = @ + 1, ![r].scanErr = resp[r].readErr]
                    /\ pc' = [pc EXCEPT ![r] = "done"]
                    /\ UNCHANGED <<w, rd>>
    /\ UNCHANGED <<config, env, booted, modelConfigs, authToken, req, upReq, resp>>

(***************************************************************************)
(* io.Copy(w, resp.Body), main.go:218-220.  Either every byte the upstream *)
(* delivered is written, or a client write fails after n bytes.            *)
(***************************************************************************)
\* a single Read and Write instead of io.Copy's loop: only the first chunk
\* (here one byte) of the body is relayed
ioCopy_SingleRead(r) ==
    /\ pc[r] = "copy"
    /\ w' = [w EXCEPT ![r] = IF rd[r] = "" THEN @ ELSE Write(@, SubSeq(rd[r], 1, 1))]
    /\ loc' = [loc EXCEPT ![r].copyErr = resp[r].readErr]
    /\ rd' = [rd EXCEPT ![r] = ""]
    /\ pc' = [pc EXCEPT ![r] = "done"]
    /\ UNCHANGED <<config, env, booted, modelConfigs, authToken, req, upReq, resp>>

ioCopy(r) ==
    /\ pc[r] = "copy"
    /\ \/ /\ w' = [w EXCEPT ![r] = IF rd[r] = "" THEN @ ELSE Write(@, rd[r])]
          /\ loc' = [loc EXCEPT ![r].copyErr = resp[r].readErr]
       \/ \E n \in 0..(Len(rd[r]) - 1) :
              /\ w' = [w EXCEPT ![r] = IF n = 0 THEN @ ELSE Write(@, SubSeq(rd[r], 1, n))]
              /\ loc' = [loc EXCEPT ![r].copyErr = TRUE, ![r].writeErr = TRUE]
    /\ rd' = [rd EXCEPT ![r] = ""]
    /\ pc' = [pc EXCEPT ![r] = "done"]
    /\ UNCHANGED <<config, env, booted, modelConfigs, authToken, req, upReq, resp>>

(***************************************************************************)
(* Inbound requests drawn for the specifications.                          *)
(***************************************************************************)
\* a request header map from the values (none or one) of the two credential headers
CredHeader(auth, key) ==
    [k \in (IF auth = <<>> THEN {} ELSE {"Authorization"})
              \cup (IF key = <<>> THEN {} ELSE {"X-Api-Key"}) |->
        IF k = "Authorization" THEN auth ELSE key]

AuthValues ==
    { <<>>, <<"">>, <<"Bearer " \o Secret>>, <<"Bearer ">>, <<Secret>>, <<"Bearer x">> }

KeyValues == { <<>>, <<"">>, <<Secret>>, <<"x">> }

CredHeaders == { CredHeader(a, k) : a \in AuthValues, k \in KeyValues }

GoodHeader == CredHeader(<<"Bearer " \o Secret>>, <<>>)

ModelValues ==
    { JAbsent, JNull, JStr(""), JStr("claude-x"), JStr("Claude-X"), JStr("bad"),
      JStr("nope") }

StreamValues ==
    { JAbsent, JTrue, JFalse, JStr("true"), JNum("1"), JStr("T"), JStr("yes"), JNum("0") }

Bodies == { Body(m, st, JNum("1024")) : m \in ModelValues, st \in StreamValues }

\* SpecAuth: every credential header combination, two bodies, one path
AuthRequests ==
    { Request(h, "/v1/messages", b, FALSE) :
        h \in CredHeaders,
        b \in { Body(JStr("claude-x"), JTrue, JNum("1024")),
                Body(JStr("claude-x"), JAbsent, JNum("1024")) } }

\* SpecRoute: every body on every endpoint, and a body that cannot be read
RouteRequests ==
    { Request(GoodHeader, p, b, FALSE) : p \in Paths, b \in Bodies }
        \cup { Request(GoodHeader, p, Body(JStr("claude-x"), JAbsent, JAbsent), TRUE) :
                 p \in Paths }

\* Spec: requests that reach the upstream, streaming and not, and one that does not
RelayRequests ==
    { Request(GoodHeader, p, Body(JStr("claude-x"), st, JNum("1024")), FALSE) :
        p \in {"/v1/messages", "/v1/chat/completions"}, st \in {JTrue, JFalse} }
        \cup { Request(NoHeader, "/v1/messages", Body(JStr("claude-x"), JTrue, JAbsent), FALSE) }

(***************************************************************************)
(* Specifications.  Connection 1 carries the request; connection 2 is idle *)
(* in the single-request specifications.                                   *)
(***************************************************************************)
InitWith(configs, envs, requests) ==
    /\ config \in configs
    /\ env \in envs
    /\ booted = FALSE
    /\ modelConfigs = EmptyMap
    /\ authToken = ""
    /\ \E q \in requests : req = [r \in ReqIds |-> IF r = 1 THEN q ELSE NoRequest]
    /\ pc = [r \in ReqIds |-> IF r = 1 THEN "auth" ELSE "idle"]
    /\ w = [r \in ReqIds |-> NewWriter]
    /\ loc = [r \in ReqIds |-> NewLocals]
    /\ upReq = [r \in ReqIds |-> <<>>]
    /\ resp = [r \in ReqIds |-> NoResponse]
    /\ rd = [r \in ReqIds |-> ""]

Step(r, responses) ==
    \/ authMiddleware(r)
    \/ proxyToUpstream(r)
    \/ clientDo(r, responses)
    \/ relay(r)
    \/ scanLoop(r)
    \/ ioCopy(r)

\* the relay of every upstream response, for requests that pass
Init == InitWith({Config(FixedModelList, Secret)}, {""}, RelayRequests)
Next == loadConfig \/ \E r \in ReqIds : Step(r, Responses)
Spec == Init /\ [][Next]_vars

NextFew == loadConfig \/ \E r \in ReqIds : Step(r, FewResponses)

\* authentication: every credential header against every source of the secret
InitAuth ==
    InitWith({Config(FixedModelList, t) : t \in {"", Secret}}, {"", Secret}, AuthRequests)
SpecAuth == InitAuth /\ [][NextFew]_vars

\* routing and rewriting: every model_list against every body
InitRoute == InitWith({Config(l, Secret) : l \in ModelLists}, {""}, RouteRequests)
SpecRoute == InitRoute /\ [][NextFew]_vars

\* concurrency: two connections, each with its own request, handled in
\* every interleaving
ConcModelList ==
    << ModelConfig("claude-x", LitellmParams("anthropic/claude-3-opus", "http://a/", "sk-up")),
       ModelConfig("gpt", LitellmParams("openai/gpt-4o", "http://o", "")) >>

ConcHeaders ==
    { GoodHeader, CredHeader(<<>>, <<Secret>>), CredHeader(<<"Bearer x">>, <<Secret>>) }

ConcBodies ==
    { Body(JStr("claude-x"), JTrue, JNum("1024")),
      Body(JStr("claude-x"), JFalse, JNum("1024")),
      Body(JStr("gpt"), JFalse, JNum("1024")),
      Body(JStr(""), JFalse, JNum("1024")),
      Body(JStr("nope"), JTrue, JNum("1024")) }

ConcRequests ==
    { Request(h, "/v1/messages", b, FALSE) : h \in ConcHeaders, b \in ConcBodies }
        \cup { Request(h, "/v1/chat/completions",
                       Body(JStr("claude-x"), JFalse, JNum("1024")), FALSE) :
                 h \in ConcHeaders }

ConcResponses ==
    { Response(200, ("Content-Type" :> <<"text/event-stream">>), "a\nb\n", FALSE) }

InitConc ==
    /\ config \in { Config(ConcModelList, t) : t \in {"", Secret} }
    /\ env = ""
    /\ booted = FALSE
    /\ modelConfigs = EmptyMap
    /\ authToken = ""
    /\ req \in [ReqIds -> ConcRequests]
    /\ pc = [r \in ReqIds |-> "auth"]
    /\ w = [r \in ReqIds |-> NewWriter]
    /\ loc = [r \in ReqIds |-> NewLocals]
    /\ upReq = [r \in ReqIds |-> <<>>]
    /\ resp = [r \in ReqIds |-> NoResponse]
    /\ rd = [r \in ReqIds |-> ""]

NextConc == loadConfig \/ \E r \in ReqIds : Step(r, ConcResponses)
SpecConc == InitConc /\ [][NextConc]_vars

(***************************************************************************)
(* Properties.  Connection 1 carries the request under study.              *)
(***************************************************************************)
\* the values the request carries for a header: <<>> when it is absent
Carried(key) ==
    IF key \in DOMAIN req[1].Header THEN req[1].Header[key] ELSE <<>>

\* the first value of a header, "" when the header is absent
ValueOf(key) == IF Carried(key) = <<>> THEN "" ELSE Carried(key)[1]

AuthDecided == booted /\ pc[1] # "auth"

\* the wrapped handler was invoked
Allowed == loc[1].next = 1

\* the request was answered by the middleware itself, the handler never invoked
Rejected(msg) ==
    /\ pc[1] = "done"
    /\ loc[1].next = 0
    /\ w[1].status = 401
    /\ BodyOf(w[1].events) = msg \o "\n"
    /\ upReq[1] = <<>>

MsgRequired == "Authorization or x-api-key header required"
MsgInvalid == "Invalid token"

\* C1: with a non-empty secret, authMiddleware allows `Authorization: Bearer
\* <secret>`, allows a matching x-api-key when no Authorization value is
\* given, rejects with 401 "... header required" when neither header gives a
\* value, and rejects with 401 "Invalid token" when the credential given
\* differs from the secret; a rejected request never reaches the handler.
\* A header is read as Header.Get reads it: one carried with an empty value
\* gives no value (the case C3 is about).
C1_AuthDecision ==
    (AuthDecided /\ authToken # "") =>
        LET a == ValueOf("Authorization")
            k == ValueOf("X-Api-Key")
        IN  /\ (a = "Bearer " \o authToken) => Allowed
            /\ (a = "" /\ k = authToken) => Allowed
            /\ (a = "" /\ k = "") => Rejected(MsgRequired)
            /\ (a # "" /\ TrimPrefix(a, "Bearer ") # authToken) => Rejected(MsgInvalid)
            /\ (a = "" /\ k # "" /\ k # authToken) => Rejected(MsgInvalid)
            /\ (~Allowed) => (loc[1].next = 0 /\ w[1].status = 401 /\ upReq[1] = <<>>)

\* C1 witness: a request with no Authorization header and the secret in
\* x-api-key has been let through to the handler
C1_Witness ==
    /\ AuthDecided /\ authToken = Secret
    /\ Carried("Authorization") = <<>> /\ Carried("X-Api-Key") = <<Secret>>
    /\ Allowed

\* C2: with an empty secret every request reaches the handler, whatever
\* credential headers it carries, and the middleware answers no 401
C2_AuthDisabled ==
    (AuthDecided /\ authToken = "") =>
        /\ Allowed
        /\ w[1].status # 401
        /\ BodyOf(w[1].events) \notin {MsgRequired \o "\n", MsgInvalid \o "\n"}

\* C2 witness: authentication is disabled and a request carrying two wrong
\* credentials has reached the handler
C2_Witness ==
    /\ AuthDecided /\ authToken = ""
    /\ Carried("Authorization") = <<"Bearer x">> /\ Carried("X-Api-Key") = <<"x">>
    /\ Allowed

\* C3 as stated: whenever an Authorization header is present (even with an
\* empty value) the credential is its value with "Bearer " stripped, the
\* request is allowed only if that equals the secret and is otherwise
\* rejected as an invalid (not a missing) credential, x-api-key being ignored
C3_AsStated ==
    (AuthDecided /\ authToken # "" /\ Carried("Authorization") # <<>>) =>
        IF TrimPrefix(ValueOf("Authorization"), "Bearer ") = authToken
        THEN Allowed
        ELSE Rejected(MsgInvalid)

\* C3 amended: x-api-key is consulted only when the Authorization header is
\* absent or carries the empty value.  Whenever Authorization carries a
\* non-empty value the credential is that value with "Bearer " stripped, even
\* when the stripped value is empty: the request is allowed only if it equals
\* the secret, otherwise rejected as invalid, a matching x-api-key
\* notwithstanding.  An Authorization header with the empty value is treated
\* as absent: x-api-key decides, and with no x-api-key value the request is
\* rejected as missing its credential.
C3_HeaderPrecedence ==
    (AuthDecided /\ authToken # "") =>
        LET a == ValueOf("Authorization")
            k == ValueOf("X-Api-Key")
        IN  /\ (a # "") =>
                  IF TrimPrefix(a, "Bearer ") = authToken THEN Allowed
                  ELSE Rejected(MsgInvalid)
            /\ (Carried("Authorization") = <<"">>) =>
                  IF k = authToken THEN Allowed
                  ELSE IF k = "" THEN Rejected(MsgRequired)
                  ELSE Rejected(MsgInvalid)

\* C3 witness: `Authorization: Bearer ` (empty after stripping) beside a
\* matching x-api-key has been rejected as an invalid credential
C3_Witness ==
    /\ authToken = Secret
    /\ Carried("Authorization") = <<"Bearer ">> /\ Carried("X-Api-Key") = <<Secret>>
    /\ Rejected(MsgInvalid)

(***************************************************************************)
(* Routing and rewriting                                                   *)
(***************************************************************************)
\* positions of the model_list entries with a logical name
Positions(name) ==
    { i \in 1..Len(config.ModelList) : config.ModelList[i].ModelName = name }

Configured(name) == Positions(name) # {}

\* the last model_list entry with a logical name
LastEntry(name) ==
    config.ModelList[CHOOSE i \in Positions(name) : \A j \in Positions(name) : j <= i]

LookupNames == {"claude-x", "Claude-X", "CLAUDE-X", "", "bad", "nope"}

\* the handler read the body and it is a document whose model is a string
\* (or is missing)
BodyRead == ~req[1].bodyErr

\* the logical name the request asks for
Asked == req[1].Body.model.v

AnsweredWith(status, msg) ==
    /\ pc[1] = "done"
    /\ w[1].status = status
    /\ BodyOf(w[1].events) = msg \o "\n"

\* C4: after loadConfig the routing table maps a name to the last
\* model_list entry of that name (duplicates included) and has no binding for
\* a name no entry carries; the match is exact and case-sensitive.  The
\* handler uses that binding: an unconfigured name is answered "Model not
\* found", and an outbound request goes to the last entry's api_base.
C4_LastEntryWins ==
    booted =>
        /\ \A name \in LookupNames :
              IF Configured(name)
              THEN /\ Lookup(modelConfigs, name).exists
                   /\ Lookup(modelConfigs, name).config = LastEntry(name)
              ELSE ~Lookup(modelConfigs, name).exists
        /\ (Allowed /\ BodyRead /\ pc[1] = "done" /\ Asked # "" /\ ~Configured(Asked))
               => AnsweredWith(400, "Model not found")
        /\ \A i \in 1..Len(upReq[1]) :
               /\ Configured(Asked)
               /\ upReq[1][i].URL =
                      TrimSuffix(LastEntry(Asked).LitellmParams.APIBase, "/") \o req[1].Path

\* C4 witness: a model_list with the same name twice, bound to different
\* routes, and a request for that name sent to the second entry's upstream
C4_Witness ==
    /\ booted
    /\ Len(config.ModelList) = 2
    /\ config.ModelList[1].ModelName = "claude-x"
    /\ config.ModelList[2].ModelName = "claude-x"
    /\ ~isAnthropicModel(config.ModelList[1].LitellmParams.Model)
    /\ upReq[1] # <<>>
    /\ upReq[1][1].URL = "http://a/v1/messages"

\* C5: the body sent upstream equals the inbound body in every field
\* (stream included) except model, which is the route's upstreamModel with
\* its single leading "anthropic/" removed
C5_BodyRewrite ==
    \A i \in 1..Len(upReq[1]) :
        LET sent == upReq[1][i].Body
            inbound == req[1].Body
        IN  /\ DOMAIN sent = DOMAIN inbound
            /\ \A f \in DOMAIN inbound \ {"model"} : sent[f] = inbound[f]
            /\ sent.model.t = "string"
            /\ Configured(Asked)
            /\ "anthropic/" \o sent.model.v = LastEntry(Asked).LitellmParams.Model

\* C5 witness: a streaming request for a route configured as
\* "anthropic/anthropic/c" went upstream with model "anthropic/c"
C5_Witness ==
    /\ upReq[1] # <<>>
    /\ req[1].Body.stream = JTrue
    /\ LastEntry(Asked).LitellmParams.Model = "anthropic/anthropic/c"
    /\ upReq[1][1].Body.model = JStr("anthropic/c")

MsgOpenAI == "OpenAI models should use /chat/completions endpoint"

C7_ModelRequired ==
    (/\ Allowed /\ BodyRead
     /\ req[1].Body.model \in {JAbsent, JStr("")}) =>
        /\ loc[1].lookups = 0
        /\ upReq[1] = <<>>
        /\ pc[1] \in {"proxy", "done"}
        /\ (pc[1] = "done") => AnsweredWith(400, "Model field is required")

\* C7 witness: the routing table has an entry for the empty name, and a
\* request with model "" was answered 400 all the same
C7_Witness ==
    /\ "" \in DOMAIN modelConfigs
    /\ req[1].Body.model = JStr("")
    /\ AnsweredWith(400, "Model field is required")
    /\ loc[1].lookups = 0

(***************************************************************************)
(* Relay                                                                   *)
(***************************************************************************)
\* an upstream response was obtained and its status line relayed
Relayed == resp[1].StatusCode # 0 /\ pc[1] \in {"scan", "copy", "done"}

IsPrefix(s, t) == Len(s) <= Len(t) /\ SubSeq(t, 1, Len(s)) = s

\* C8: on the non-streaming path the client receives the upstream's status
\* code and the upstream's body bytes unchanged, for every status and body:
\* what has been written is always a prefix of the upstream body, and all
\* of it once the copy has ended with no client write failing
C8_VerbatimCopy ==
    (Relayed /\ ~loc[1].isStream) =>
        /\ w[1].status = resp[1].StatusCode
        /\ IsPrefix(BodyOf(w[1].events), resp[1].Body)
        /\ (pc[1] = "done" /\ ~loc[1].writeErr) => BodyOf(w[1].events) = resp[1].Body

\* C8 witness: a 500 response whose body has CR LF line ends was copied whole
C8_Witness ==
    /\ Relayed /\ ~loc[1].isStream /\ req[1].Body.stream = JFalse
    /\ pc[1] = "done" /\ ~loc[1].writeErr
    /\ resp[1].StatusCode = 500
    /\ resp[1].Body = "b\r\na\n"
    /\ w[1].status = 500
    /\ BodyOf(w[1].events) = "b\r\na\n"

\* the lines of a text: the pieces between newlines, a carriage return
\* before the newline belonging to the line end; a last piece without a
\* newline is a line unless it is empty.  Each line is paired with the number
\* of bytes it occupies before its newline.
RECURSIVE TextLines(_)
TextLines(text) ==
    IF text = "" THEN <<>>
    ELSE LET i == CHOOSE j \in 1..(Len(text) + 1) :
                      /\ (j <= Len(text) => SubSeq(text, j, j) = "\n")
                      /\ \A k \in 1..(j - 1) : SubSeq(text, k, k) # "\n"
             piece == SubSeq(text, 1, i - 1)
             line == IF piece # "" /\ SubSeq(piece, Len(piece), Len(piece)) = "\r"
                     THEN SubSeq(piece, 1, Len(piece) - 1)
                     ELSE piece
         IN  <<[line |-> line, bytes |-> ByteLen(piece)]>>
                 \o TextLines(SubSeq(text, i + 1, Len(text)))

\* n separate deliveries: each line written with one newline, then flushed
RECURSIVE Deliveries(_)
Deliveries(lines) ==
    IF lines = <<>> THEN <<>>
    ELSE <<[op |-> "write", data |-> lines[1].line \o "\n"], [op |-> "flush", data |-> ""]>>
             \o Deliveries(Tail(lines))

\* the lines before the first one of ten mebibytes or more
RECURSIVE WithinLimit(_)
WithinLimit(lines) ==
    IF lines = <<>> \/ lines[1].bytes >= 10 * 1024 * 1024 THEN <<>>
    ELSE <<lines[1]>> \o WithinLimit(Tail(lines))

Streaming == Relayed /\ loc[1].isStream /\ w[1].flusher = "yes"

\* C9 as stated: a streaming relay whose client accepts every write ends
\* with the client having received every line of the upstream body, in
\* order, each as its own write followed by a flush
C9_AsStated ==
    (Streaming /\ pc[1] = "done" /\ ~loc[1].writeErr) =>
        w[1].events = Deliveries(TextLines(resp[1].Body))

\* C9 amended: the same for the lines that precede the first line of
\* 10 MiB or more, where the relay ends; at every point of the relay the
\* deliveries made are those of the first k such lines, for some k
C9_LinesRelayed ==
    Streaming =>
        LET lines == WithinLimit(TextLines(resp[1].Body))
        IN  /\ \E k \in 0..Len(lines) : w[1].events = Deliveries(SubSeq(lines, 1, k))
            /\ (pc[1] = "done" /\ ~loc[1].writeErr) => w[1].events = Deliveries(lines)

\* C9 witness: the body "a\nb\r\n" has been relayed as write "a\n", flush,
\* write "b\n", flush
C9_Witness ==
    /\ Streaming /\ pc[1] = "done" /\ ~loc[1].writeErr
    /\ resp[1].Body = "a\nb\r\n"
    /\ w[1].events = << [op |-> "write", data |-> "a\n"], [op |-> "flush", data |-> ""],
                        [op |-> "write", data |-> "b\n"], [op |-> "flush", data |-> ""] >>

\* the upstream header names the streaming relay leaves out
Suppressed ==
    { key \in DOMAIN resp[1].Header :
        ToLower(key) \in {"content-length", "transfer-encoding"} }

\* C10: with the stream flag set the response to the client carries every
\* upstream header with all its values except Content-Length and
\* Transfer-Encoding; with the flag clear it carries every upstream header
C10_HeaderRelay ==
    Relayed =>
        LET kept == IF loc[1].isStream THEN DOMAIN resp[1].Header \ Suppressed
                    ELSE DOMAIN resp[1].Header
        IN  /\ DOMAIN w[1].sent = kept
            /\ \A key \in kept : w[1].sent[key] = resp[1].Header[key]

\* C10 witness: a streaming relay of an upstream response with
\* Content-Length, Transfer-Encoding and Content-Type sent Content-Type alone
C10_Witness ==
    /\ Relayed /\ loc[1].isStream
    /\ DOMAIN resp[1].Header = {"Content-Length", "Transfer-Encoding", "Content-Type"}
    /\ DOMAIN w[1].sent = {"Content-Type"}
    /\ w[1].sent["Content-Type"] = <<"text/event-stream">>

(***************************************************************************)
(* Upstream failures and pass-through                                      *)
(***************************************************************************)
\* the outbound call was made and no upstream response was obtained
Unreached == upReq[1] # <<>> /\ resp[1] = NoResponse

\* the response header http.Error gives a reply written on a fresh writer
ErrorHeader ==
    ("Content-Type" :> <<"text/plain; charset=utf-8">>)
        @@ ("X-Content-Type-Options" :> <<"nosniff">>)

\* C11: when the outbound call fails with no upstream response, the client
\* receives status 502 with the body "Error forwarding request", the reply
\* carries http.Error's own header and nothing of an upstream response, the
\* upstream body is neither read nor written, the call was made once and the
\* handler has ended
C11_BadGateway ==
    Unreached =>
        /\ pc[1] = "done"
        /\ Len(upReq[1]) = 1
        /\ w[1].status = 502
        /\ w[1].sent = ErrorHeader
        /\ w[1].events = <<[op |-> "write", data |-> "Error forwarding request\n"]>>
        /\ rd[1] = "" /\ loc[1].scans = 0

\* C11 witness: a streaming request went out once, no response came back,
\* and the client has its 502
C11_Witness ==
    /\ Unreached
    /\ req[1].Body.stream = JTrue
    /\ Len(upReq[1]) = 1 /\ upReq[1][1].URL = "http://a/v1/messages"
    /\ w[1].status = 502
    /\ BodyOf(w[1].events) = "Error forwarding request\n"

\* the text made of lines, each ended by one newline
RECURSIVE LinesText(_)
LinesText(lines) ==
    IF lines = <<>> THEN ""
    ELSE lines[1].line \o "\n" \o LinesText(Tail(lines))

\* the relay has ended, over a writer that flushes when streaming asks for
\* it, and the client accepted every write
Delivered == Relayed /\ pc[1] = "done" /\ ~loc[1].writeErr /\ w[1].flusher # "no"

\* C12 as stated: for every upstream response, with or without the stream
\* flag, the client receives the upstream's status code and the upstream's
\* body bytes
C12_AsStated ==
    Delivered =>
        /\ w[1].status = resp[1].StatusCode
        /\ BodyOf(w[1].events) = resp[1].Body

\* C12 amended: for every upstream response the client receives the
\* upstream's status code, and one outbound request was made (no retry).
\* Without the stream flag the body received is the upstream's, byte for
\* byte.  With the stream flag the body received is the upstream's lines up
\* to the first line of 10 MiB or more, each ended by exactly one newline: a
\* carriage return before a newline is not relayed and a last line without
\* a newline gains one.
C12_PassThrough ==
    Relayed =>
        /\ w[1].status = resp[1].StatusCode
        /\ Len(upReq[1]) = 1
        /\ (Delivered /\ ~loc[1].isStream) => BodyOf(w[1].events) = resp[1].Body
        /\ (Delivered /\ Streaming) =>
               BodyOf(w[1].events) = LinesText(WithinLimit(TextLines(resp[1].Body)))

\* C12 witness: a 429 answer to a streaming request, its JSON body without
\* a final newline, reached the client as 429 with the body and a newline
C12_Witness ==
    /\ Delivered /\ Streaming
    /\ resp[1].StatusCode = 429
    /\ resp[1].Body = "{\"id\":\"abc\"}"
    /\ w[1].status = 429
    /\ BodyOf(w[1].events) = "{\"id\":\"abc\"}\n"

(***************************************************************************)
(* The outbound request                                                    *)
(***************************************************************************)
\* C13: every outbound request carries Content-Type: application/json and
\* User-Agent: llmp-proxy/1.0, each once, on every endpoint; it carries
\* Authorization exactly when the resolved route's api_key is non-empty, and
\* then with the single value "Bearer " followed by that key; it carries no
\* other header
C13_UpstreamHeaders ==
    \A i \in 1..Len(upReq[1]) :
        LET h == upReq[1][i].Header
            apiKey == LastEntry(Asked).LitellmParams.APIKey
        IN  /\ Configured(Asked)
            /\ upReq[1][i].Method = "POST"
            /\ {"Content-Type", "User-Agent"} \subseteq DOMAIN h
            /\ h["Content-Type"] = <<"application/json">>
            /\ h["User-Agent"] = <<"llmp-proxy/1.0">>
            /\ ("Authorization" \in DOMAIN h) <=> (apiKey # "")
            /\ (apiKey # "") => h["Authorization"] = <<"Bearer " \o apiKey>>
            /\ DOMAIN h \subseteq {"Content-Type", "User-Agent", "Authorization"}

\* C13 witness: on the OpenAI-style endpoint a request whose route has no
\* api_key went upstream with the two fixed headers and no Authorization,
\* although the inbound request carried one
C13_Witness ==
    /\ req[1].Path = "/v1/chat/completions"
    /\ Carried("Authorization") # <<>>
    /\ upReq[1] # <<>>
    /\ LastEntry(Asked).LitellmParams.APIKey = ""
    /\ DOMAIN upReq[1][1].Header = {"Content-Type", "User-Agent"}

\* the handler built its outbound request
Dispatched == pc[1] \in {"do", "relay", "scan", "copy"} \/ upReq[1] # <<>>

\* the `stream` values the handler takes for true: the JSON boolean true, a
\* string spelling 1, t or true in any letter case, a number other than 0
CountsAsTrue(v) ==
    \/ v.t = "true"
    \/ v.t = "string" /\ ToLower(v.v) \in {"1", "t", "true"}
    \/ v.t = "number" /\ v.v # "0"

\* C14 as stated: the stream flag is true exactly when the body's `stream`
\* field is the JSON boolean true; with the field absent or not a boolean
\* the request takes the non-streaming path with its 30-second timeout
C14_AsStated ==
    Dispatched =>
        /\ loc[1].isStream = (req[1].Body.stream = JTrue)
        /\ (req[1].Body.stream # JTrue) =>
               (loc[1].out.Timeout = 30 /\ pc[1] # "scan")

\* C14 amended: the stream flag is true exactly when the `stream` field is
\* the JSON boolean true, a string spelling 1, t or true in any letter case,
\* or a number other than 0; otherwise (absent, false, another string, 0)
\* it is false.  A false flag means the 30-second timeout and the verbatim
\* copy, a true flag no timeout and the line relay.
C14_StreamFlag ==
    Dispatched =>
        LET flag == CountsAsTrue(req[1].Body.stream)
        IN  /\ loc[1].isStream = flag
            /\ loc[1].out.Timeout = (IF flag THEN 0 ELSE 30)
            /\ \A i \in 1..Len(upReq[1]) : upReq[1][i].Timeout = loc[1].out.Timeout
            /\ (pc[1] = "scan") => flag
            /\ (pc[1] = "copy") => ~flag

\* C14 witness: a body with "stream": "true" (a string) was sent without a
\* timeout and its response is relayed line by line
C14_Witness ==
    /\ req[1].Body.stream = JStr("true")
    /\ upReq[1] # <<>> /\ upReq[1][1].Timeout = 0
    /\ pc[1] = "scan"

(***************************************************************************)
(* Streaming relay                                                         *)
(***************************************************************************)
\* the stream flag is set and the writer is no http.Flusher
CannotFlush == Relayed /\ loc[1].isStream /\ w[1].flusher = "no"

\* C15 as stated: when the stream flag is set and the writer cannot flush,
\* the client receives status 500 with the body "Streaming not supported",
\* the handler ends, and no line of the upstream body is read or written
C15_AsStated ==
    CannotFlush =>
        /\ pc[1] = "done"
        /\ w[1].status = 500
        /\ BodyOf(w[1].events) = "Streaming not supported\n"
        /\ loc[1].scans = 0 /\ rd[1] = resp[1].Body

\* the lines the client has received: the data of each write without its
\* final newline
RECURSIVE Written(_)
Written(events) ==
    IF events = <<>> THEN <<>>
    ELSE IF Head(events).op = "write"
    THEN <<SubSeq(Head(events).data, 1, Len(Head(events).data) - 1)>>
             \o Written(Tail(events))
    ELSE Written(Tail(events))

\* every write is a line ended by one newline and is followed by a flush
WriteThenFlush(events) ==
    /\ Len(events) % 2 = 0
    /\ \A i \in 1..Len(events) :
           IF i % 2 = 1
           THEN /\ events[i].op = "write"
                /\ HasSuffix(events[i].data, "\n")
           ELSE events[i].op = "flush"

\* a write of the streaming relay has failed
WriteFailed == Streaming /\ loc[1].writeErr

\* C16, state part: once a write of the streaming relay has failed the
\* handler has ended; the failed line is the k-th upstream line, the last one
\* read; the client holds the k-1 lines before it, in order, each written
\* and flushed, and nothing of the failed line; the upstream body has
\* been read up to that line and no further
C16_FailedWrite ==
    WriteFailed =>
        LET all == WithinLimit(TextLines(resp[1].Body))
            k == Len(loc[1].lines)
        IN  /\ pc[1] = "done"
            /\ k \in 1..Len(all)
            /\ loc[1].scans = k
            /\ \A i \in 1..k : loc[1].lines[i] = all[i].line
            /\ w[1].events = Deliveries(SubSeq(all, 1, k - 1))
            /\ Written(w[1].events) = SubSeq(loc[1].lines, 1, k - 1)

\* C16, step part: after the failed write no step writes or flushes to the
\* client, reads the upstream body, or scans again
C16_NothingAfter ==
    [][WriteFailed => (w'[1] = w[1] /\ rd'[1] = rd[1] /\ loc'[1] = loc[1])]_vars

\* C16: the first failed client write of a streaming relay ends the loop at
\* once: no write, flush or upstream read follows, the failed line is not
\* retried, and the lines delivered are exactly the upstream lines before it
C16_WriteFailureEndsRelay == []C16_FailedWrite /\ C16_NothingAfter

\* C16 witness: of the upstream lines "a", "b", the write of "b" failed; the
\* client holds "a" alone and the handler has ended
C16_Witness ==
    /\ WriteFailed /\ pc[1] = "done"
    /\ resp[1].Body = "a\nb\r\n"
    /\ loc[1].lines = <<"a", "b">>
    /\ Written(w[1].events) = <<"a">>

\* the scanner came to the end of what the upstream delivered and met the
\* read error there: the Scan after the last line returned false
ReadFailed ==
    /\ Streaming /\ pc[1] = "done"
    /\ resp[1].readErr /\ rd[1] = ""
    /\ loc[1].scans = Len(loc[1].lines) + 1

\* C17, state part: at every point of a streaming relay the lines written
\* are, position by position, the lines read, all of them or all but the
\* last (whose write failed); each written line was flushed; the status is
\* the upstream's.  When the read of the upstream body has ended in an error
\* and the handler is done, every line read was written and flushed.
C17_PrefixOfRead ==
    Streaming =>
        LET out == Written(w[1].events)
            read == loc[1].lines
        IN  /\ IsPrefix(out, read)
            /\ Len(out) = (IF loc[1].writeErr THEN Len(read) - 1 ELSE Len(read))
            /\ WriteThenFlush(w[1].events)
            /\ w[1].status = resp[1].StatusCode
            /\ ReadFailed => (loc[1].scanErr /\ out = read)

\* C17, step part: no step retracts or alters what the client received or
\* the status and header already sent
C17_NothingRetracted ==
    [][Streaming =>
          /\ IsPrefix(w[1].events, w'[1].events)
          /\ w'[1].status = w[1].status
          /\ w'[1].sent = w[1].sent]_vars

\* C17: the lines written are always a prefix of the lines read, and a read
\* error ends the loop with every line read delivered and nothing retracted
C17_PartialDelivery == []C17_PrefixOfRead /\ C17_NothingRetracted

\* C17 witness: the upstream answered 500, its body broke off with a read
\* error after "a" and an unfinished "b\r"; both lines reached the client and
\* the status is still 500
C17_Witness ==
    /\ ReadFailed
    /\ resp[1].StatusCode = 500 /\ loc[1].scanErr
    /\ resp[1].Body = "a\nb\r"
    /\ Written(w[1].events) = <<"a", "b">>
    /\ w[1].status = 500

(***************************************************************************)
(* Gatekeeping, isolation and header independence, over two connections    *)
(***************************************************************************)
\* the first value connection r's request gives for a header, "" when none
Given(r, key) ==
    IF key \in DOMAIN req[r].Header /\ req[r].Header[key] # <<>>
    THEN req[r].Header[key][1]
    ELSE ""

\* the request of connection r is authenticated, or authentication is off
PassesAuth(r) ==
    \/ authToken = ""
    \/ Given(r, "Authorization") = "Bearer " \o authToken
    \/ Given(r, "Authorization") = authToken
    \/ Given(r, "Authorization") = "" /\ Given(r, "X-Api-Key") = authToken

\* the logical name connection r asks for
ModelOf(r) == req[r].Body.model.v

\* the name is given, configured, and its route is Anthropic-style
Routable(r) ==
    /\ ~req[r].bodyErr
    /\ ModelOf(r) # ""
    /\ Configured(ModelOf(r))
    /\ HasPrefix(LastEntry(ModelOf(r)).LitellmParams.Model, "anthropic/")

\* C18: an upstream request is issued for an inbound request only once the
\* configuration is loaded, the request has passed authentication (or
\* authentication is off), its model is non-empty, resolves, and resolves to
\* an Anthropic-style route; a request failing authentication ends with 401
\* and one failing a model check with 400, both with no upstream request and
\* the former without the handler being invoked; no inbound request causes
\* more than one upstream request
C18_Gate ==
    \A r \in ReqIds :
        /\ Len(upReq[r]) <= 1
        /\ (upReq[r] # <<>> \/ pc[r] \in {"do", "relay", "scan", "copy"}) =>
               (booted /\ PassesAuth(r) /\ Routable(r))
        /\ (booted /\ pc[r] # "auth" /\ ~PassesAuth(r)) =>
               /\ pc[r] = "done" /\ loc[r].next = 0
               /\ w[r].status = 401
               /\ upReq[r] = <<>>
        /\ (pc[r] = "done" /\ PassesAuth(r) /\ ~Routable(r)) =>
               /\ w[r].status = 400
               /\ upReq[r] = <<>>

\* C18 witness: of two requests handled side by side, one with a wrong
\* bearer token ended with 401 and one for an OpenAI-style route with 400,
\* neither having caused an upstream request
C18_Witness ==
    /\ authToken = Secret
    /\ pc[1] = "done" /\ pc[2] = "done"
    /\ ~PassesAuth(1) /\ Routable(1) /\ w[1].status = 401 /\ upReq[1] = <<>>
    /\ PassesAuth(2) /\ ModelOf(2) = "gpt" /\ w[2].status = 400 /\ upReq[2] = <<>>

\* what the handling of connection r's request alone, against the
\* configuration loaded at startup, decides
AloneAuth(r) ==
    authOutcome(req[r].Header,
                IF config.AuthToken = "" THEN env ELSE config.AuthToken)

AlonePrepared(r) == prepare(req[r], BuildModelConfigs(EmptyMap, config.ModelList))

\* C19, state part: whatever the other connection does, connection r is
\* allowed or rejected as alone, answered with the same error status and
\* message as alone, or has built and sent the same upstream request (URL,
\* header, rewritten body, timeout) as alone
C19_AsAlone ==
    \A r \in ReqIds :
        /\ (booted /\ pc[r] # "auth") =>
               /\ (loc[r].next = 1) = (AloneAuth(r) = "next")
               /\ (AloneAuth(r) # "next") =>
                      /\ pc[r] = "done" /\ w[r].status = 401
                      /\ BodyOf(w[r].events) =
                             (IF AloneAuth(r) = "required" THEN MsgRequired ELSE MsgInvalid)
                                 \o "\n"
        /\ (loc[r].next = 1 /\ pc[r] # "proxy") =>
               LET p == AlonePrepared(r)
               IN  IF p.kind = "reply"
                   THEN /\ pc[r] = "done" /\ upReq[r] = <<>>
                        /\ w[r].status = p.status
                        /\ BodyOf(w[r].events) = p.msg \o "\n"
                   ELSE /\ loc[r].out = p.out
                        /\ loc[r].isStream = p.isStream
                        /\ \A i \in 1..Len(upReq[r]) : upReq[r][i] = p.out

\* C19, step part: once loaded, the routing table and the shared secret
\* are changed by no step
C19_Immutable ==
    [][booted => (booted' /\ modelConfigs' = modelConfigs /\ authToken' = authToken)]_vars

\* C19: after loadConfig no step modifies the routing table or the secret,
\* and in every interleaving of two requests each has the outcome it has
\* when handled alone against the same configuration
C19_Isolation == []C19_AsAlone /\ C19_Immutable

\* C19 witness: two requests for the same model were handled side by side
\* and both were sent to the same upstream with the same rewritten model
C19_Witness ==
    /\ ModelOf(1) = "claude-x" /\ ModelOf(2) = "claude-x"
    /\ upReq[1] # <<>> /\ upReq[2] # <<>>
    /\ upReq[1][1].Body.model = JStr("claude-3-opus")
    /\ upReq[2][1].Body.model = JStr("claude-3-opus")
    /\ pc[1] = "done" /\ pc[2] = "done"

\* the values a header map holds
Values(h) == UNION { { h[k][j] : j \in 1..Len(h[k]) } : k \in DOMAIN h }

\* the header values of the upstream requests of connection r
ForwardedValues(r) == UNION { Values(upReq[r][i].Header) : i \in 1..Len(upReq[r]) }

\* both requests were let through and the handler has built its answer
BothPrepared(r1, r2) ==
    /\ loc[r1].next = 1 /\ pc[r1] # "proxy"
    /\ loc[r2].next = 1 /\ pc[r2] # "proxy"

\* C20: two requests that pass authentication with the same body and the
\* same path, whatever their headers, have the same upstream request built
\* and sent for them (or none for either); and no header value of an
\* upstream request is a value of the inbound request's headers, the shared
\* secret, or the secret as a bearer token
C20_HeaderIndependence ==
    /\ \A r1, r2 \in ReqIds :
           (/\ req[r1].Body = req[r2].Body /\ req[r1].Path = req[r2].Path
            /\ req[r1].bodyErr = req[r2].bodyErr
            /\ BothPrepared(r1, r2)) =>
               /\ loc[r1].out = loc[r2].out
               /\ \A i \in 1..Len(upReq[r1]), j \in 1..Len(upReq[r2]) :
                      upReq[r1][i] = upReq[r2][j]
               /\ (pc[r1] \notin {"do"} /\ pc[r2] \notin {"do"}) =>
                      Len(upReq[r1]) = Len(upReq[r2])
    /\ \A r \in ReqIds :
           /\ ForwardedValues(r) \cap Values(req[r].Header) = {}
           /\ (authToken # "") =>
                  ForwardedValues(r) \cap {authToken, "Bearer " \o authToken} = {}

\* C20 witness: one request authenticated by a bearer token and one by
\* x-api-key, with the same body and path, went upstream as the same
\* request, whose Authorization is the route's key
C20_Witness ==
    /\ authToken = Secret
    /\ Given(1, "Authorization") = "Bearer " \o Secret /\ Given(1, "X-Api-Key") = ""
    /\ Given(2, "Authorization") = "" /\ Given(2, "X-Api-Key") = Secret
    /\ req[1].Body = req[2].Body /\ req[1].Path = req[2].Path
    /\ upReq[1] # <<>> /\ upReq[1] = upReq[2]
    /\ upReq[1][1].Header["Authorization"] = <<"Bearer sk-up">>

====
